---- MODULE Spec2Model ----
(***************************************************************************)
(* Decay-chain discovery (main.get_nuclides) and the forward-Euler         *)
(* integrator (main.solve / main._eulerfw) of hhenu/decay_chain, with the  *)
(* Nuclide and Decay objects they build and mutate.                        *)
(*                                                                         *)
(* Real numbers are fixed-point integers: the integer k stands for the     *)
(* real k / ONE.  ONE is a power of 4 large enough that every product and  *)
(* quotient the integrator forms within MaxSteps steps is exact on the     *)
(* inputs enumerated below (half-lives 1 and 2, percentages that are       *)
(* multiples of 25), so the arithmetic coincides with the float arithmetic *)
(* of the code on those inputs.                                            *)
(***************************************************************************)
EXTENDS Integers, Sequences, FiniteSets, TLC

VARIABLES data, src_nuclides, tspan, stack, nuclide_dict, nuclide_objs,
          created, nuclide_lst, phase, dt, step

vars == <<data, src_nuclides, tspan, stack, nuclide_dict, nuclide_objs,
          created, nuclide_lst, phase, dt, step>>

(***************************************************************************)
(* Bounds of the model.                                                    *)
(***************************************************************************)
MaxSteps == 2      \* longest time grid has MaxSteps + 1 points
MaxStack == 4      \* cap on the length of the discovery worklist
MaxModes == 3      \* decay modes in one enumerated data table

Names == {"x", "y", "z"}

RECURSIVE Pow(_, _)
Pow(b, e) == IF e = 0 THEN 1 ELSE b * Pow(b, e - 1)

ONE == Pow(4, MaxSteps)

\* Python's None; an optional value v is <<v>>.
None == <<>>
Some(v) == <<v>>

\* nuclide.N_A, in the population unit of the model (one mol is 4 units).
N_A == 4 * ONE
\* nuclide.LN2; half-lives are counted in units of ln(2) seconds.
LN2 == ONE

\* float * float on fixed-point numbers.
FMul(a, b) == (a * b) \div ONE

Max(a, b) == IF a >= b THEN a ELSE b
Min(a, b) == IF a <= b THEN a ELSE b

Range(s) == {s[i] : i \in 1..Len(s)}

(***************************************************************************)
(* nuclide.Nuclide.  A nuclide is identified by its name,                  *)
(* sym.lower() + str(z + n), which is the key its data was fetched under;  *)
(* object references are held as names.                                    *)
(***************************************************************************)
calc_n0(m0, atomic_mass) == (N_A * m0) \div atomic_mass

Nuclide(name, atom_mass, halflife, m0) ==
  [name        |-> name,
   atomic_mass |-> atom_mass,
   halflife    |-> halflife,
   lamda       |-> IF halflife # None THEN LN2 \div halflife[1] ELSE 0,
   m0          |-> m0,
   n           |-> IF m0 # None THEN calc_n0(m0[1], atom_mass) ELSE 0,
   parents     |-> <<>>,
   daughters   |-> <<>>,
   sources     |-> <<>>,
   n_arr       |-> <<>>]

add_parent(obj, nuc)   == [obj EXCEPT !.parents = Append(@, nuc)]
add_daughter(obj, nuc) == [obj EXCEPT !.daughters = Append(@, nuc)]
add_source(obj, src)   == [obj EXCEPT !.sources = Append(@, src)]

(***************************************************************************)
(* decay.Decay                                                             *)
(***************************************************************************)
\* Mutant: the range check is missing.
DecayRaises_unchecked(decay_ratio) == FALSE

\* TRUE when Decay.__init__ raises ValueError.
DecayRaises(decay_ratio) == ~(0 <= decay_ratio /\ decay_ratio <= ONE)

Decay(parent, daughter, lamda, decay_ratio) ==
  [parent      |-> parent,
   daughter    |-> daughter,
   lamda       |-> lamda,
   decay_ratio |-> decay_ratio,
   lamda_eff   |-> FMul(lamda, decay_ratio)]

\* Mutant: the rate is applied to the daughter's population.
calculate_daughter(dec, objs) == FMul(dec.lamda_eff, objs[dec.daughter].n)

\* Decay.calculate, reading the parent's current population.
calculate(dec, objs) == FMul(dec.lamda_eff, objs[dec.parent].n)

RECURSIVE SumCalc(_, _, _)
SumCalc(srcs, k, objs) ==
  IF k = 0 THEN 0 ELSE SumCalc(srcs, k - 1, objs) + calculate(srcs[k], objs)

source_term(obj, objs) == SumCalc(obj.sources, Len(obj.sources), objs)
loss_term(obj)         == FMul(obj.lamda, obj.n)

(***************************************************************************)
(* The ordered dict nuclide_dict: a sequence of entries in insertion order *)
(***************************************************************************)
HasKey(d, k) == \E i \in 1..Len(d) : d[i].key = k
DictIndex(d, k) == CHOOSE i \in 1..Len(d) : d[i].key = k
\* Mutant: every assignment adds an entry, also for a key already present.
DictSet_append(d, k, v) == Append(d, [key |-> k] @@ v)

\* d[k] = v: an existing key keeps its position, a new key goes last.
DictSet(d, k, v) ==
  IF HasKey(d, k)
  THEN [d EXCEPT ![DictIndex(d, k)] = [key |-> k] @@ v]
  ELSE Append(d, [key |-> k] @@ v)

(***************************************************************************)
(* Iteration order of a Python set of names.  CPython iterates a set in    *)
(* hash-table order; for strings that order depends on the hash seed of    *)
(* the process and is unrelated to the order of insertion.  A rank is one  *)
(* such order: a set is iterated by increasing rank.  The passes that      *)
(* follow discovery are the only readers, and they may meet any rank.      *)
(***************************************************************************)
Ranks == {r \in [Names -> 1..Cardinality(Names)] :
            \A a, b \in Names : a # b => r[a] # r[b]}

RECURSIVE SetIter(_, _)
SetIter(S, rank) ==
  IF S = {} THEN <<>>
  ELSE LET first == CHOOSE a \in S : \A b \in S : rank[a] <= rank[b]
       IN  <<first>> \o SetIter(S \ {first}, rank)

(***************************************************************************)
(* main._get_daughters: the daughter names of a decay list.  An entry's    *)
(* d_name stands for d_symbol + str(int(d_z) + int(d_n)).                  *)
(***************************************************************************)
get_daughters(decay_data) == [i \in 1..Len(decay_data) |-> decay_data[i].d_name]

\* src_nuclides.get(nuc, None) on the ordered mapping src_nuclides.
SrcGet(src, nuc) ==
  IF \E i \in 1..Len(src) : src[i].name = nuc
  THEN Some(src[CHOOSE i \in 1..Len(src) : src[i].name = nuc].m0)
  ELSE None

\* Mutant: the Nuclide is constructed at every pop.
MustConstruct_always(d, nuc) == TRUE

\* "if nuc not in nuclide_dict.keys()": the Nuclide is constructed only then.
MustConstruct(d, nuc) == ~HasKey(d, nuc)

\* The entry a pop stores under nuclide_dict[nuc] (main.py lines 88-91).
FreshEntry(decays) ==
  [parents   |-> {},
   daughters |-> Range(get_daughters(decays)),
   decays    |-> IF Len(decays) = 0 THEN <<>> ELSE decays]

\* One iteration of "while stack:" (main.py lines 72-92).
Discover ==
  /\ phase = "discover"
  /\ stack # <<>>
  /\ LET nuc      == stack[Len(stack)]
         rest     == SubSeq(stack, 1, Len(stack) - 1)
         nuc_data == data[nuc]
         halflife == IF nuc_data.half_life_sec = 0
                     THEN None ELSE Some(nuc_data.half_life_sec)
         decays   == nuc_data.decays
         build    == MustConstruct(nuclide_dict, nuc)
     IN  /\ Len(rest) + Len(decays) <= MaxStack
         /\ nuclide_objs' =
              IF build
              THEN (nuc :> Nuclide(nuc, nuc_data.atomic_mass, halflife,
                                   SrcGet(src_nuclides, nuc)))
                   @@ nuclide_objs
              ELSE nuclide_objs
         /\ created' = IF build THEN Append(created, nuc) ELSE created
         /\ nuclide_dict' = DictSet(nuclide_dict, nuc, FreshEntry(decays))
         /\ stack' = rest \o get_daughters(decays)
  /\ UNCHANGED <<data, src_nuclides, tspan, nuclide_lst, phase, dt, step>>

(***************************************************************************)
(* Second pass (main.py lines 95-97): parents from daughters.              *)
(***************************************************************************)
\* Mutant: the parent replaces the parents recorded so far.
AddParentTo_overwrite(d, daughters, parent) ==
  [j \in 1..Len(d) |->
     IF d[j].key \in daughters
     THEN [d[j] EXCEPT !.parents = {parent}] ELSE d[j]]

AddParentTo(d, daughters, parent) ==
  [j \in 1..Len(d) |->
     IF d[j].key \in daughters
     THEN [d[j] EXCEPT !.parents = @ \cup {parent}] ELSE d[j]]

RECURSIVE FillParents(_, _)
FillParents(d, i) ==
  IF i > Len(d) THEN d
  ELSE FillParents(AddParentTo(d, d[i].daughters, d[i].key), i + 1)

(***************************************************************************)
(* Third pass (main.py lines 102-111): object references and Decay edges.  *)
(***************************************************************************)
\* dec["decay_%"] / 100
PercentToRatio(pct) == (pct * ONE) \div 100

RECURSIVE AddParents(_, _, _, _)
AddParents(objs, nuc, ps, j) ==
  IF j > Len(ps) THEN objs
  ELSE AddParents([objs EXCEPT ![nuc] = add_parent(@, ps[j])], nuc, ps, j + 1)

\* zip(inner_dict["daughters"], inner_dict["decays"]) pairs position by position
\* and stops at the shorter of the two.
ZipLen(ds, decays) == Min(Len(ds), Len(decays))

\* The loop over the zip; st = [objs, raised].
RECURSIVE ZipLoop(_, _, _, _, _)
ZipLoop(st, nuc, ds, decays, j) ==
  IF st.raised \/ j > ZipLen(ds, decays) THEN st
  ELSE LET daughter == ds[j]
           dec      == decays[j]
           objs1    == [st.objs EXCEPT ![nuc] = add_daughter(@, daughter)]
           ratio    == PercentToRatio(dec.decay_pct)
           d        == Decay(nuc, daughter, objs1[nuc].lamda, ratio)
       IN  IF DecayRaises(ratio)
           THEN [objs |-> objs1, raised |-> TRUE]
           ELSE ZipLoop([objs   |-> [objs1 EXCEPT ![daughter] = add_source(@, d)],
                         raised |-> FALSE],
                        nuc, ds, decays, j + 1)

\* The loop over nuclide_dict.items(); st = [objs, lst, raised].
RECURSIVE WireLoop(_, _, _, _)
WireLoop(st, d, rank, i) ==
  IF st.raised \/ i > Len(d) THEN st
  ELSE LET nuc   == d[i].key
           objs1 == AddParents(st.objs, nuc, SetIter(d[i].parents, rank), 1)
           z     == ZipLoop([objs |-> objs1, raised |-> FALSE], nuc,
                            SetIter(d[i].daughters, rank), d[i].decays, 1)
       IN  WireLoop([objs   |-> z.objs,
                     lst    |-> IF z.raised THEN st.lst ELSE Append(st.lst, nuc),
                     raised |-> z.raised],
                    d, rank, i + 1)

\* The rest of get_nuclides once the worklist is empty (main.py lines 94-113):
\* it returns nuclide_lst, or a Decay constructor raises ValueError.
Wire ==
  /\ phase = "discover"
  /\ stack = <<>>
  /\ \E rank \in Ranks :
       LET d   == FillParents(nuclide_dict, 1)
           res == WireLoop([objs |-> nuclide_objs, lst |-> <<>>, raised |-> FALSE],
                           d, rank, 1)
       IN  /\ nuclide_dict' = d
           /\ nuclide_objs' = res.objs
           /\ nuclide_lst' = IF res.raised THEN <<>> ELSE res.lst
           /\ phase' = IF res.raised THEN "value_error" ELSE "built"
  /\ UNCHANGED <<data, src_nuclides, tspan, stack, created, dt, step>>

(***************************************************************************)
(* main._dsdt and main._eulerfw                                            *)
(***************************************************************************)
\* dt * fun(nuclides=nuclides): the scaled derivative of every nuclide of the
\* list, all read from the same populations.
y_vals(objs, lst, h) ==
  [j \in 1..Len(lst) |->
     h * (source_term(objs[lst[j]], objs) - loss_term(objs[lst[j]]))]

\* Mutant: the step is added without the floor.
Advance_unclamped(obj, y) ==
  [obj EXCEPT !.n = obj.n + y, !.n_arr = Append(@, obj.n + y)]

\* nuc.n += max(float(y_vals[j]), -nuc.n); nuc.n_arr.append(nuc.n)
Advance(obj, y) ==
  LET n1 == obj.n + Max(y, -obj.n)
  IN  [obj EXCEPT !.n = n1, !.n_arr = Append(@, n1)]

\* "for j, nuc in enumerate(nuclides)" (main.py lines 135-137).
RECURSIVE UpdateLoop(_, _, _, _)
UpdateLoop(objs, lst, y, j) ==
  IF j > Len(lst) THEN objs
  ELSE UpdateLoop([objs EXCEPT ![lst[j]] = Advance(@, y[j])], lst, y, j + 1)

\* Mutant: each nuclide's derivative is taken when its turn comes, from
\* populations the loop has already advanced.
RECURSIVE SequentialLoop(_, _, _, _)
SequentialLoop(objs, lst, h, j) ==
  IF j > Len(lst) THEN objs
  ELSE SequentialLoop(
         [objs EXCEPT ![lst[j]] = Advance(@, y_vals(objs, lst, h)[j])],
         lst, h, j + 1)
EulerIteration_sequential(objs, lst, h) == SequentialLoop(objs, lst, h, 1)

\* One iteration of "for i, _ in enumerate(tspan[1:], start=1)".
EulerIteration(objs, lst, h) == UpdateLoop(objs, lst, y_vals(objs, lst, h), 1)

\* TRUE when "dt = tspan[1] - tspan[0]" raises IndexError.
GridRaises(grid) == Len(grid) < 2

\* solve -> _eulerfw up to the loop (main.py lines 132, 147).
Solve ==
  /\ phase = "built"
  /\ IF GridRaises(tspan)
     THEN /\ phase' = "index_error"
          /\ UNCHANGED <<dt, step>>
     ELSE /\ dt' = tspan[2] - tspan[1]
          /\ step' = 1
          /\ phase' = "stepping"
  /\ UNCHANGED <<data, src_nuclides, tspan, stack, nuclide_dict, nuclide_objs,
                 created, nuclide_lst>>

\* One iteration of the time loop of _eulerfw (main.py lines 133-137); after
\* the last one _eulerfw returns (line 138).
EulerStep ==
  /\ phase = "stepping"
  /\ step <= Len(tspan) - 1
  /\ nuclide_objs' = EulerIteration(nuclide_objs, nuclide_lst, dt)
  /\ step' = step + 1
  /\ phase' = IF step = Len(tspan) - 1 THEN "solved" ELSE "stepping"
  /\ UNCHANGED <<data, src_nuclides, tspan, stack, nuclide_dict, created,
                 nuclide_lst, dt>>

(***************************************************************************)
(* Inputs: the data table behind data_handler.get_data, the source mapping *)
(* and the time grid (main.py lines 191-196).                              *)
(***************************************************************************)
Pcts == {50, 100, 125}
Masses == {1, 2}
HalfLives == {0, 1, 2}          \* 0: no half-life (stable)

\* Tabulated atomic masses.
AtomicMass(a) == IF a = "x" THEN 4 ELSE IF a = "y" THEN 2 ELSE 1
\* Tabulated half-lives of the nuclides that decay.
HalfLife(a) == IF a = "y" THEN 2 ELSE 1

DecayEntry(d, p) == [d_name |-> d, decay_pct |-> p]

\* Decay lists of nuclide a: up to two modes, each to another nuclide, no two
\* to the same one (distinct decay modes change z and n differently).
DecayLists(a, pcts) ==
  {<<>>}
  \cup {<<DecayEntry(d, p)>> : d \in Names \ {a}, p \in pcts}
  \cup UNION {{<<DecayEntry(d1, p1), DecayEntry(d2, p2)>> :
                  d2 \in Names \ {a, d1}, p1 \in pcts, p2 \in pcts} :
               d1 \in Names \ {a}}

RECURSIVE SumLen(_, _)
SumLen(f, S) ==
  IF S = {} THEN 0
  ELSE LET a == CHOOSE b \in S : TRUE IN Len(f[a]) + SumLen(f, S \ {a})

Record(a, hl, decays) ==
  [atomic_mass |-> AtomicMass(a), half_life_sec |-> hl, decays |-> decays]

\* Uniform grids linspace(0, (k-1)*h, k).
Grid(k, h) == [i \in 1..k |-> (i - 1) * h]
Grids == {Grid(k, h) : k \in 0..(MaxSteps + 1), h \in {1, 2}}

\* Ordered source mappings with distinct keys.
Sources(maxlen, masses) ==
  {s \in UNION {[1..k -> [name : Names, m0 : masses]] : k \in 0..maxlen} :
     \A i, j \in 1..Len(s) : i # j => s[i].name # s[j].name}

\* Any graph of at most MaxModes modes (cycles and out-of-range percentages
\* included); a nuclide without modes is stable.
Shapes(pcts) ==
  {("x" :> lx) @@ ("y" :> ly) @@ ("z" :> lz) :
     lx \in DecayLists("x", pcts), ly \in DecayLists("y", pcts),
     lz \in DecayLists("z", pcts)}

BuildTables ==
  {[a \in Names |->
      Record(a, IF Len(dl[a]) = 0 THEN 0 ELSE HalfLife(a), dl[a])] :
   dl \in {f \in Shapes(Pcts) : SumLen(f, Names) <= MaxModes}}

\* Chains x -> y -> z with any half-lives and in-range percentages.
SolveShapes ==
  {dl \in Shapes({50, 100}) :
     /\ dl["x"] \in {<<DecayEntry("y", 100)>>, <<DecayEntry("y", 50)>>,
                     <<DecayEntry("y", 50), DecayEntry("z", 50)>>}
     /\ dl["y"] \in {<<>>, <<DecayEntry("z", 100)>>}
     /\ dl["z"] = <<>>}
SolveTables ==
  {[a \in Names |-> Record(a, hl[a], dl[a])] :
     dl \in SolveShapes, hl \in [Names -> HalfLives]}

InitCommon ==
  /\ stack = [i \in 1..Len(src_nuclides) |-> src_nuclides[i].name]
  /\ nuclide_dict = <<>>
  /\ nuclide_objs = <<>>
  /\ created = <<>>
  /\ nuclide_lst = <<>>
  /\ phase = "discover"
  /\ dt = 0
  /\ step = 0

Init ==
  /\ \/ /\ data \in BuildTables
        /\ src_nuclides \in Sources(2, {1})
        /\ tspan = Grid(2, 1)
     \/ /\ data \in SolveTables
        /\ src_nuclides \in {s \in Sources(1, Masses) \cup Sources(2, {1}) :
                                 \E i \in 1..Len(s) : s[i].name = "x"}
        /\ tspan \in Grids
  /\ InitCommon

Next == Discover \/ Wire \/ Solve \/ EulerStep

Spec == Init /\ [][Next]_vars

\* The worklist loop on the small tables, cyclic ones included.  "while
\* stack:" goes on as long as the worklist is non-empty: an iteration that
\* can be taken is eventually taken.
CycleTables ==
  {[a \in Names |->
      Record(a, IF Len(dl[a]) = 0 THEN 0 ELSE HalfLife(a), dl[a])] :
   dl \in {f \in Shapes({100}) : SumLen(f, Names) < MaxModes}}

CycleInit ==
  /\ data \in CycleTables
  /\ src_nuclides \in Sources(1, {1})
  /\ tspan \in {Grid(1, 1), Grid(2, 1)}
  /\ InitCommon

FairSpec == CycleInit /\ [][Next]_vars /\ WF_vars(Discover)

(***************************************************************************)
(* Vocabulary of the properties.                                           *)
(***************************************************************************)
SourceNames == {src_nuclides[i].name : i \in 1..Len(src_nuclides)}
DaughtersOf(a) == Range(get_daughters(data[a].decays))

RECURSIVE Closure(_)
Closure(S) ==
  LET T == S \cup UNION {DaughtersOf(a) : a \in S}
  IN  IF T = S THEN S ELSE Closure(T)

\* The names the data table makes reachable from the sources.
Reachable == Closure(SourceNames)
OnCycle(a) == a \in Closure(DaughtersOf(a))
AcyclicReachable == \A a \in Reachable : ~OnCycle(a)

NoDuplicates(s) == \A i, j \in 1..Len(s) : i # j => s[i] # s[j]

\* get_nuclides has returned its list.
Returned == phase \in {"built", "stepping", "solved", "index_error"}

\* Every Decay object held by some nuclide, with its holder and position.
DecayRefs ==
  UNION {{<<a, k>> : k \in 1..Len(nuclide_objs[a].sources)} :
           a \in DOMAIN nuclide_objs}
DecayAt(ref) == nuclide_objs[ref[1]].sources[ref[2]]

\* Every fixed-point operation of the run is exact.
ArithmeticExact ==
  /\ \A a \in Names :
       /\ data[a].half_life_sec # 0 => LN2 % data[a].half_life_sec = 0
       /\ \A i \in 1..Len(data[a].decays) :
            (data[a].decays[i].decay_pct * ONE) % 100 = 0
  /\ \A a \in DOMAIN nuclide_objs :
       /\ nuclide_objs[a].m0 # None =>
            (N_A * nuclide_objs[a].m0[1]) % nuclide_objs[a].atomic_mass = 0
       /\ phase = "stepping" =>
            /\ (nuclide_objs[a].lamda * nuclide_objs[a].n) % ONE = 0
            /\ \A k \in 1..Len(nuclide_objs[a].sources) :
                 LET dec == nuclide_objs[a].sources[k]
                 IN  /\ (dec.lamda * dec.decay_ratio) % ONE = 0
                     /\ (dec.lamda_eff * nuclide_objs[dec.parent].n) % ONE = 0

\* The worklist cap stops no discovery that can end.
CapNeverBinds ==
  (phase = "discover" /\ stack # <<>> /\ AcyclicReachable) => ENABLED Discover

(***************************************************************************)
(* C1: chain discovery terminates on a two-cycle.  With the single source  *)
(* A, A's only decay leading to B and B's only decay leading to A, the     *)
(* worklist becomes empty and the build returns exactly the nodes A and B, *)
(* each the parent and the daughter of the other.                          *)
(***************************************************************************)
TwoCycleInput ==
  /\ Len(src_nuclides) = 1
  /\ LET A == src_nuclides[1].name
     IN  /\ Len(data[A].decays) = 1
         /\ LET B == data[A].decays[1].d_name
            IN  /\ Len(data[B].decays) = 1
                /\ data[B].decays[1].d_name = A

TwoCycleBuilt ==
  /\ TwoCycleInput
  /\ phase = "built"
  /\ stack = <<>>
  /\ LET A == src_nuclides[1].name
         B == data[A].decays[1].d_name
     IN  /\ Range(nuclide_lst) = {A, B}
         /\ Range(nuclide_objs[A].daughters) = {B}
         /\ Range(nuclide_objs[A].parents) = {B}
         /\ Range(nuclide_objs[B].daughters) = {A}
         /\ Range(nuclide_objs[B].parents) = {A}

C1_CycleDiscoveryTerminates == TwoCycleInput => <>TwoCycleBuilt

(***************************************************************************)
(* C2: when no cycle is reachable from the sources, one Nuclide is         *)
(* constructed per discovered name however often the name is popped, and   *)
(* the returned list holds each reachable name exactly once.               *)
(***************************************************************************)
C2_OneNuclidePerName ==
  AcyclicReachable =>
    /\ NoDuplicates(created)
    /\ DOMAIN nuclide_objs = Range(created)
    /\ \A a \in DOMAIN nuclide_objs : nuclide_objs[a].name = a
    /\ Returned =>
         /\ NoDuplicates(nuclide_lst)
         /\ Range(nuclide_lst) = Reachable
         /\ Range(created) = Reachable

\* A returned chain in which one name was pushed by two different parents and
\* another name is both a source and a daughter.
C2_Witness ==
  /\ Returned
  /\ AcyclicReachable
  /\ \E i \in 1..Len(nuclide_dict) : Cardinality(nuclide_dict[i].parents) >= 2
  /\ \E a \in SourceNames, b \in SourceNames : a \in DaughtersOf(b)

(***************************************************************************)
(* C3: in a returned chain parents and daughters are mutual inverses, and  *)
(* neither list names a nuclide twice.                                     *)
(***************************************************************************)
C3_ParentsDaughtersInverse ==
  Returned =>
    \A a \in Range(nuclide_lst) :
      /\ NoDuplicates(nuclide_objs[a].parents)
      /\ NoDuplicates(nuclide_objs[a].daughters)
      /\ Range(nuclide_objs[a].parents) \subseteq Range(nuclide_lst)
      /\ Range(nuclide_objs[a].daughters) \subseteq Range(nuclide_lst)
      /\ \A b \in Range(nuclide_lst) :
           (b \in Range(nuclide_objs[a].daughters))
             <=> (a \in Range(nuclide_objs[b].parents))

\* A returned chain with a nuclide of two parents, a nuclide of two daughters
\* and a nuclide that was processed more than once.
C3_Witness ==
  /\ Returned
  /\ \E a \in Range(nuclide_lst) : Len(nuclide_objs[a].parents) = 2
  /\ \E a \in Range(nuclide_lst) : Len(nuclide_objs[a].daughters) = 2
  /\ \E a \in SourceNames, b \in SourceNames : a \in DaughtersOf(b)

(***************************************************************************)
(* Populations over the steps, read from the histories.                    *)
(***************************************************************************)
InitialPop(a) ==
  IF nuclide_objs[a].m0 # None
  THEN (N_A * nuclide_objs[a].m0[1]) \div nuclide_objs[a].atomic_mass
  ELSE 0

\* The population of a after k steps.
PopAt(a, k) == IF k = 0 THEN InitialPop(a) ELSE nuclide_objs[a].n_arr[k]

StepsDone == IF phase \in {"stepping", "solved"} THEN step - 1 ELSE 0

RECURSIVE Production(_, _, _)
Production(a, k, j) ==
  IF j = 0 THEN 0
  ELSE LET dec == nuclide_objs[a].sources[j]
       IN  Production(a, k, j - 1)
             + ((dec.lamda_eff * PopAt(dec.parent, k)) \div ONE)

\* dN/dt of a from the populations after k steps.
DerivAt(a, k) ==
  Production(a, k, Len(nuclide_objs[a].sources))
    - ((nuclide_objs[a].lamda * PopAt(a, k)) \div ONE)

(***************************************************************************)
(* C4: populations never go below zero.  Every nuclide's current           *)
(* population and every value of its history is >= 0, also when            *)
(* decay_constant * dt > 1.                                                *)
(***************************************************************************)
C4_PopulationNonNegative ==
  \A a \in DOMAIN nuclide_objs :
    /\ nuclide_objs[a].n >= 0
    /\ \A k \in 1..Len(nuclide_objs[a].n_arr) : nuclide_objs[a].n_arr[k] >= 0

\* A populated nuclide with decay_constant * dt > 1 took a step: the explicit
\* step overshoots and the floor leaves 0.
C4_Witness ==
  /\ phase \in {"stepping", "solved"}
  /\ \E a \in DOMAIN nuclide_objs :
       /\ Len(nuclide_objs[a].n_arr) >= 1
       /\ InitialPop(a) > 0
       /\ nuclide_objs[a].sources = <<>>
       /\ nuclide_objs[a].lamda * dt > ONE
       /\ nuclide_objs[a].n_arr[1] = 0

(***************************************************************************)
(* C5: a time grid of fewer than 2 points is a no-op, not an error.  solve *)
(* returns normally and leaves every population unchanged and every        *)
(* history empty.                                                          *)
(***************************************************************************)
C5_DegenerateGridIsNoOp ==
  (Len(tspan) < 2 /\ Returned) =>
    /\ phase # "index_error"
    /\ \A a \in DOMAIN nuclide_objs :
         /\ nuclide_objs[a].n_arr = <<>>
         /\ nuclide_objs[a].n = InitialPop(a)

(***************************************************************************)
(* C6: conservation in a two-nuclide chain.  Parent P decays only to D at  *)
(* 100%, D has no half-life and starts at 0, and decay_constant * dt <= 1: *)
(* after every step P + D is P's initial population, P has not grown and D *)
(* has not shrunk.                                                         *)
(***************************************************************************)
TwoNuclideCase(P, D) ==
  /\ Returned
  /\ Len(tspan) >= 2
  /\ P \in SourceNames
  /\ D \notin SourceNames
  /\ data[P].decays = <<DecayEntry(D, 100)>>
  /\ data[D].half_life_sec = 0
  /\ \A b \in Reachable : P \notin DaughtersOf(b)
  /\ \A b \in Reachable : D \in DaughtersOf(b) => b = P
  /\ nuclide_objs[P].lamda * (tspan[2] - tspan[1]) <= ONE

C6_TwoNuclideConservation ==
  \A P \in Names, D \in Names :
    TwoNuclideCase(P, D) =>
      /\ nuclide_objs[P].n + nuclide_objs[D].n = InitialPop(P)
      /\ Len(nuclide_objs[P].n_arr) = Len(nuclide_objs[D].n_arr)
      /\ \A k \in 1..Len(nuclide_objs[P].n_arr) :
           /\ PopAt(P, k) + PopAt(D, k) = InitialPop(P)
           /\ PopAt(P, k) <= PopAt(P, k - 1)
           /\ PopAt(D, k) >= PopAt(D, k - 1)

\* Two steps of such a chain, with population moving from P to D in each.
C6_Witness ==
  \E P \in Names, D \in Names :
    /\ TwoNuclideCase(P, D)
    /\ phase = "solved"
    /\ Len(nuclide_objs[P].n_arr) >= 2
    /\ PopAt(P, 2) < PopAt(P, 1)
    /\ PopAt(D, 2) > PopAt(D, 1)
    /\ PopAt(D, 1) > 0

(***************************************************************************)
(* C7: a branching ratio outside [0, 1] is never accepted.  Every Decay    *)
(* that exists has 0 <= branching_ratio <= 1, and the build fails with the *)
(* validation error exactly when a discovered nuclide reports a percentage *)
(* outside [0, 100].                                                       *)
(***************************************************************************)
OutOfRangeReported ==
  \E a \in Reachable : \E i \in 1..Len(data[a].decays) :
    data[a].decays[i].decay_pct < 0 \/ data[a].decays[i].decay_pct > 100

C7_BranchingRatioValidated ==
  /\ \A ref \in DecayRefs :
       0 <= DecayAt(ref).decay_ratio /\ DecayAt(ref).decay_ratio <= ONE
  /\ phase # "discover" => (phase = "value_error" <=> OutOfRangeReported)

\* A build that failed after it had already accepted an in-range edge.
C7_Witness ==
  /\ phase = "value_error"
  /\ OutOfRangeReported
  /\ DecayRefs # {}

(***************************************************************************)
(* C8: the result does not depend on the order of the pops.  Whatever the  *)
(* order of the source keys, the returned names, the parent/daughter       *)
(* relation, the Decay edges and the initial populations are those the     *)
(* data table and the source mapping determine: a source gets              *)
(* N_A * mass / atomic_mass, every other nuclide 0.  The edges are those   *)
(* of the zip of each parent's daughters, in the order its daughter list   *)
(* shows, with its decay list.                                             *)
(***************************************************************************)
RECURSIVE ModesOf(_)
ModesOf(S) ==
  IF S = {} THEN 0
  ELSE LET a == CHOOSE b \in S : TRUE
       IN  Len(data[a].decays) + ModesOf(S \ {a})

C8_ResultIndependentOfPopOrder ==
  Returned =>
    /\ Range(nuclide_lst) = Reachable
    /\ Len(nuclide_lst) = Cardinality(Reachable)
    /\ \A a \in Reachable :
         /\ Range(nuclide_objs[a].daughters) = DaughtersOf(a)
         /\ Range(nuclide_objs[a].parents)
              = {b \in Reachable : a \in DaughtersOf(b)}
    /\ Cardinality(DecayRefs) = ModesOf(Reachable)
    /\ {<<DecayAt(ref).parent, DecayAt(ref).daughter, ref[1],
          DecayAt(ref).decay_ratio>> : ref \in DecayRefs}
         = UNION {{<<a, nuclide_objs[a].daughters[j],
                     nuclide_objs[a].daughters[j],
                     (data[a].decays[j].decay_pct * ONE) \div 100>> :
                     j \in 1..Len(data[a].decays)} : a \in Reachable}
    /\ phase = "built" =>
         \A a \in Reachable :
           IF a \in SourceNames
           THEN \E i \in 1..Len(src_nuclides) :
                  /\ src_nuclides[i].name = a
                  /\ nuclide_objs[a].n
                       = (N_A * src_nuclides[i].m0) \div data[a].atomic_mass
           ELSE nuclide_objs[a].n = 0

\* A returned chain whose second source key, popped first, has the first
\* source key as its daughter: that source is first reached as a daughter,
\* and is popped again later as a source.
C8_Witness ==
  /\ phase = "built"
  /\ Len(src_nuclides) = 2
  /\ src_nuclides[1].name \in DaughtersOf(src_nuclides[2].name)
  /\ nuclide_objs[src_nuclides[1].name].n > 0
  /\ DaughtersOf(src_nuclides[1].name) # {}

(***************************************************************************)
(* C9: every Decay edge carries the branching ratio of its own mode.  For  *)
(* each mode of a parent P with percentage p and daughter D the chain      *)
(* holds exactly one Decay P -> D in D's incoming decays, with             *)
(* branching_ratio = p / 100 and effective rate                            *)
(* P.decay_constant * p / 100.                                             *)
(***************************************************************************)
C9_EdgeCarriesOwnRatio ==
  Returned =>
    \A P \in Reachable : \A j \in 1..Len(data[P].decays) :
      LET D     == data[P].decays[j].d_name
          ratio == (data[P].decays[j].decay_pct * ONE) \div 100
          edges == {ref \in DecayRefs :
                      ref[1] = D /\ DecayAt(ref).parent = P}
      IN  /\ Cardinality(edges) = 1
          /\ \A ref \in edges :
               /\ DecayAt(ref).daughter = D
               /\ DecayAt(ref).decay_ratio = ratio
               /\ DecayAt(ref).lamda_eff
                    = (nuclide_objs[P].lamda * ratio) \div ONE

(***************************************************************************)
(* C10: each integration step is synchronous.  After k steps every         *)
(* nuclide has k history entries, and its population after a step is its   *)
(* population before plus max(derivative * dt, -population), the           *)
(* derivative (production by its incoming decays minus its own loss) taken *)
(* from the populations all nuclides had before that step, whatever the    *)
(* order of the list.                                                      *)
(***************************************************************************)
C10_SynchronousStep ==
  Returned =>
    \A a \in Range(nuclide_lst) :
      /\ Len(nuclide_objs[a].n_arr) = StepsDone
      /\ nuclide_objs[a].n = PopAt(a, StepsDone)
      /\ \A k \in 1..StepsDone :
           PopAt(a, k) = PopAt(a, k - 1)
                           + Max(dt * DerivAt(a, k - 1), -PopAt(a, k - 1))

\* Two steps of a chain in which a decaying nuclide with a populated,
\* decaying parent comes after that parent in the list.
C10_Witness ==
  /\ phase = "solved"
  /\ StepsDone >= 2
  /\ \E i \in 1..Len(nuclide_lst), j \in 1..Len(nuclide_lst) :
       LET p == nuclide_lst[i]
           a == nuclide_lst[j]
       IN  /\ i < j
           /\ \E k \in 1..Len(nuclide_objs[a].sources) :
                /\ nuclide_objs[a].sources[k].parent = p
                /\ nuclide_objs[a].sources[k].lamda_eff > 0
           /\ InitialPop(p) > 0
           /\ nuclide_objs[a].lamda > 0
           /\ PopAt(a, 2) # PopAt(a, 1)

(***************************************************************************)
(* Totals over the chain, read from the histories.                         *)
(***************************************************************************)
\* The sum of the populations of lst[1..j] after k steps.
RECURSIVE TotalPop(_, _, _)
TotalPop(lst, k, j) ==
  IF j = 0 THEN 0 ELSE TotalPop(lst, k, j - 1) + PopAt(lst[j], k)

TotalAt(k) == TotalPop(nuclide_lst, k, Len(nuclide_lst))

\* The sum of the branching ratios of the Decay objects in refs.
RECURSIVE SumRatios(_)
SumRatios(refs) ==
  IF refs = {} THEN 0
  ELSE LET ref == CHOOSE r \in refs : TRUE
       IN  DecayAt(ref).decay_ratio + SumRatios(refs \ {ref})

OutgoingOf(P) == {ref \in DecayRefs : DecayAt(ref).parent = P}

\* Every parent's outgoing branching ratios sum to at most 1.
RatiosSumAtMostOne ==
  \A P \in Range(nuclide_lst) : SumRatios(OutgoingOf(P)) <= ONE

\* What the nuclides of lst[1..j] lost in step k.
RECURSIVE LossIn(_, _, _)
LossIn(lst, k, j) ==
  IF j = 0 THEN 0
  ELSE LossIn(lst, k, j - 1) + (PopAt(lst[j], k - 1) - PopAt(lst[j], k))

\* Some nuclide's explicit step of step k overshot and was cut by the floor.
ClampedIn(k) ==
  \E a \in Range(nuclide_lst) : dt * DerivAt(a, k - 1) < -PopAt(a, k - 1)

(***************************************************************************)
(* C11: the total population never grows.  In a chain where every parent's *)
(* outgoing branching ratios sum to at most 1, the sum of all populations  *)
(* after a step is at most the sum before it, for every dt > 0 and every   *)
(* decay constant, also when the floor limits a parent's loss to its whole *)
(* population (decay_constant * dt > 1); and a nuclide gains in a step no  *)
(* more than its parents lose in that step.                                *)
(***************************************************************************)
C11_TotalNeverGrows ==
  (Returned /\ RatiosSumAtMostOne) =>
    \A k \in 1..StepsDone :
      /\ TotalAt(k) <= TotalAt(k - 1)
      /\ \A a \in Range(nuclide_lst) :
           nuclide_objs[a].parents # <<>> =>
             PopAt(a, k) - PopAt(a, k - 1)
               <= LossIn(nuclide_objs[a].parents, k,
                         Len(nuclide_objs[a].parents))

\* The same statement for the steps in which the floor cuts nothing.
TotalNeverGrowsUnclamped ==
  (Returned /\ RatiosSumAtMostOne) =>
    \A k \in 1..StepsDone : ~ClampedIn(k) => TotalAt(k) <= TotalAt(k - 1)

====
